---------------------------- MODULE Spec2Model ----------------------------
(***************************************************************************)
(* Multi-source crawl orchestration of riching/stock_scraper.              *)
(*                                                                         *)
(*  Spec          the producer/consumer crawlers                           *)
(*                (crawler/multi_source_crawler.py, the "realtime" kind,   *)
(*                and crawler/multi_source_history_crawler.py, the         *)
(*                "history" kind): one shared queue.Queue, the worker      *)
(*                threads' loops and the orchestrator.                     *)
(*  ProgressSpec  the progress store (utils/monitor_manager.py) with its   *)
(*                progress file, a clock and process kills/restarts.       *)
(*  CallSpec      single calls of the pure helpers and of stop().          *)
(*  InfoSpec      the information crawler's tasks, retries and dedup.      *)
(*  LiveSpec      the "realtime" crawler under weakly fair threads.        *)
(*  FingerprintSpec  the content fingerprint on pairs of items.            *)
(*  SharedSpec    several MonitorManager objects on one progress file.     *)
(*  FairSpec      both crawlers under weakly fair threads.                 *)
(*  BatchSpec     run_full_crawl's loop over the stocks to process.        *)
(*  SaveSpec      single calls of save_stock_info_data.                    *)
(*  PurgeSpec     single calls of clean_date_data.                         *)
(*                                                                         *)
(* The components share no state in the program, so each has its own       *)
(* specification; the variables of the others stay as initialised.         *)
(***************************************************************************)
EXTENDS Integers, Sequences, FiniteSets, TLC

\* ------------------------------------------------------------- bounds
NumWorkers == 2        \* worker threads started by start_workers
MaxN == 3              \* seeded stock codes: N ranges over 0..MaxN
MaxCalls == 2          \* max_calls ranges over 1..MaxCalls

NumStocks == 2         \* rows of stock_list, the progress store's universe
MaxBatch == 2          \* batch_size ranges over 0..MaxBatch
MaxScore == 2          \* scores range over 1..MaxScore
MaxNow == 8            \* the clock runs over days 0..MaxNow

MaxPrice == 2          \* prices range over 0..MaxPrice cents
MaxItems == 3          \* items of one extracted batch: 0..MaxItems
MaxDate == 2           \* dates of stored market records: 1..MaxDate
MaxFp == 2             \* distinct fingerprints: 1..MaxFp
MaxSent == 1           \* sentiment scores range over 1..MaxSent
MaxTitle == 1          \* titles have 0..MaxTitle characters
MaxContent == 2        \* contents have 0..MaxContent characters
MaxStops == 2          \* stop() is called 0..MaxStops times on a worker
NumManagers == 2       \* MonitorManager objects on one progress file
MaxMarks == 2          \* outcomes recorded by one of them: 0..MaxMarks

Workers == 1..NumWorkers
Codes == 1..MaxN
None == 0              \* the sentinel put by the orchestrator
Stocks == 1..NumStocks \* stock codes in ascending order (ORDER BY code)
StoreDates == 1..MaxDate
Scores == 1..MaxScore

\* ---------------------------------------------------------- constants
max_retries == 3       \* "max_retries": 3 of the default progress data
FreshDays == 7         \* timedelta(days=7) of should_process_stock
Tolerance == 1         \* the 0.01 of compare_data, in cents
crawl_max_retries == 3 \* max_retries = 3 of crawl_stock_info
ContentCut == 1        \* the 500 of content[:500]; one character of a
                       \* content stands for a run of 500

VARIABLES
    \* --- crawler ---
    kind,            \* "realtime" | "history": which crawler runs
    max_calls,       \* BaseWorker.max_calls
    test_mode,       \* BaseWorker.test_mode (real-time crawler only)
    queue,           \* queue.Queue: the items, head first
    unfinished,      \* queue.Queue.unfinished_tasks
    wpc,             \* position of each worker thread in run()
    witem,           \* stock_code held by each worker (None: none)
    running,         \* BaseWorker.running
    call_count,      \* WorkerStats.call_count
    success_count,   \* WorkerStats.success_count
    failure_count,   \* WorkerStats.failure_count
    rows,            \* merged_stocks: rows stored per code for target_date
    opc,             \* position of the orchestrator
    sent,            \* sentinels put in the current stop round
    \* --- observations of the queue's calls (history of the run) ---
    seeded,          \* N: codes put before the workers start
    doneCalls,       \* task_done() calls made
    requeued,        \* stock codes put back on the queue by workers
    init_failed,     \* per worker: init_crawler caught an exception
    late_pops,       \* per worker: queue.get calls that returned while
                     \* running was False
    \* --- progress store ---
    now,             \* datetime.now(), in days
    progress_data,   \* MonitorManager.progress_data, in memory
    progress_file,   \* the progress file on disk
    pmPc,            \* "idle" | "writing" (inside _save_progress) | "dead"
    pmOp,            \* the call under way, or the constructor just run
    batch,           \* stocks returned by get_stocks_to_process, not yet marked
    failures,        \* history: mark_stock_failed calls made on this
                     \* MonitorManager object, per stock
    \* --- record checks and the dedup filter, one call at a time ---
    call,            \* the function called and its arguments
    ret,             \* its return value (Pending: not yet returned)
    \* --- info crawler: crawl_stock_info calls, one after the other ---
    tables,          \* the rows of stock_news and of stock_announcements
    has_newss,       \* whether the database has a table named stock_newss
    ipc,             \* position in crawl_stock_info ("idle": not in a call)
    retry_count,     \* retry_count of the call
    unique,          \* per content type, the filtered fingerprints
    analyzed,        \* per content type, the rows built by the classifier
    cur,             \* <<content type index, item index>> being analysed
    classified,      \* history: the <<content type, fingerprint>> pairs
                     \* analyze_content was invoked for in this call
    reinvoked,       \* history: one of them was given to it again
    returned,        \* what the last crawl_stock_info call returned:
                     \* "score" | "None" ("pending": no call has returned)
    \* --- several MonitorManager objects on the one progress_file ---
    managers         \* per object: constructed or not, its progress_data,
                     \* and the outcomes it has recorded so far

crawlerVars ==
    <<kind, max_calls, test_mode, queue, unfinished, wpc, witem, running,
      call_count, success_count, failure_count, rows, opc, sent, seeded,
      doneCalls, requeued, init_failed, late_pops>>

progressVars ==
    <<now, progress_data, progress_file, pmPc, pmOp, batch, failures>>

callVars == <<call, ret>>

infoVars == <<tables, has_newss, ipc, retry_count, unique, analyzed, cur,
              classified, reinvoked, returned>>

sharedVars == <<managers>>

otherThanCrawler == <<progressVars, callVars, infoVars, sharedVars>>
otherThanProgress == <<crawlerVars, callVars, infoVars, sharedVars>>
otherThanCall == <<crawlerVars, progressVars, infoVars, sharedVars>>
otherThanInfo == <<crawlerVars, progressVars, callVars, sharedVars>>
otherThanShared ==
    <<crawlerVars, callVars, infoVars, now, progress_data, pmPc, pmOp, batch,
      failures>>

vars == <<crawlerVars, progressVars, callVars, infoVars, sharedVars>>

\* ------------------------------------------------------------ queue.Queue
\* Queue.put: append and count the task as unfinished.
QPut(q, item) == Append(q, item)

\* ------------------------------------------------------------ WorkerStats
add_success(w) ==
    /\ success_count' = [success_count EXCEPT ![w] = @ + 1]
    /\ call_count' = [call_count EXCEPT ![w] = @ + 1]
    /\ UNCHANGED failure_count

\* add_failure leaving call_count as it is.
add_failure_uncounted(w) ==
    /\ failure_count' = [failure_count EXCEPT ![w] = @ + 1]
    /\ UNCHANGED <<call_count, success_count>>

add_failure(w) ==
    /\ failure_count' = [failure_count EXCEPT ![w] = @ + 1]
    /\ call_count' = [call_count EXCEPT ![w] = @ + 1]
    /\ UNCHANGED success_count

confVars == <<kind, max_calls, test_mode, seeded>>
queueVars == <<queue, unfinished, requeued>>
statVars == <<call_count, success_count, failure_count>>
histVars == <<init_failed, late_pops>>

\* ------------------------------------------------------------------ Init
InitCrawler ==
    /\ kind \in {"realtime", "history"}
    /\ max_calls \in 1..MaxCalls
    \* only MultiSourceRealTimeCrawler hands a test_mode to its workers
    /\ test_mode \in (IF kind = "realtime" THEN BOOLEAN ELSE {FALSE})
    \* start() of the history crawler returns before seeding when there is
    \* no stock code, so its workers only ever run with N >= 1.
    /\ seeded \in (IF kind = "history" THEN 1 ELSE 0)..MaxN
    \* crawl(stock_codes) queues the caller's list as given, which may
    \* name a code twice; codes loaded from the database are distinct.
    /\ \E repeated \in (IF kind = "realtime" /\ seeded >= 2
                        THEN BOOLEAN ELSE {FALSE}) :
         queue = [i \in 1..seeded |-> IF repeated /\ i = 2 THEN 1 ELSE i]
    /\ unfinished = seeded
    /\ wpc = [w \in Workers |-> IF kind = "realtime" THEN "init" ELSE "while"]
    /\ witem = [w \in Workers |-> None]
    /\ running = [w \in Workers |-> TRUE]
    /\ call_count = [w \in Workers |-> 0]
    /\ success_count = [w \in Workers |-> 0]
    /\ failure_count = [w \in Workers |-> 0]
    \* The history crawler purges the target date before seeding; the
    \* real-time crawler may find rows of an earlier run.
    /\ \E stored \in (IF kind = "history" THEN {{}} ELSE {{}, {1}}) :
         rows = [c \in Codes |-> IF c \in stored THEN 1 ELSE 0]
    /\ opc = "join"
    /\ sent = 0
    /\ doneCalls = 0
    /\ requeued = 0
    /\ init_failed = [w \in Workers |-> FALSE]
    /\ late_pops = [w \in Workers |-> 0]

\* ------------------------------------------------------- worker thread
Terminated(w) == wpc[w] \in {"exited", "died"}

\* The worker holds a popped stock code whose iteration has not ended.
InFlight(w) == wpc[w] \in {"crawl", "exists", "insert", "task_done"}

\* BaseWorker.stop as run by the real-time worker's finally block.
stop(w) == running' = [running EXCEPT ![w] = FALSE]

\* Leaving run(): the real-time worker runs stop() in its finally block,
\* the history worker only prints.
LeaveRun(w, how) ==
    /\ wpc' = [wpc EXCEPT ![w] = how]
    /\ IF kind = "realtime" THEN stop(w) ELSE UNCHANGED running

\* An exception reaches the except clauses of the loop body.
\* realtime: the first clause is "except Queue.Empty"; Queue is the class
\*   queue.Queue, which has no attribute Empty, so evaluating the clause
\*   raises AttributeError, which leaves the loop and run(): the thread
\*   dies after the finally block, with neither add_failure nor task_done.
\* history: "except Exception" counts a failure and the loop goes on;
\*   it makes no task_done call.
ExceptionInLoop(w) ==
    IF kind = "realtime"
    THEN /\ LeaveRun(w, "died")
         /\ UNCHANGED statVars
    ELSE /\ wpc' = [wpc EXCEPT ![w] = "while"]
         /\ add_failure(w)
         /\ UNCHANGED running

\* The history worker puts a failed code back on the queue; the real-time
\* worker does not.
PutBack(w) ==
    IF kind = "history"
    THEN /\ queue' = QPut(queue, witem[w])
         /\ unfinished' = unfinished + 1
         /\ requeued' = requeued + 1
    ELSE UNCHANGED queueVars

\* init_crawler of the real-time workers: on failure running is set False.
W_init_crawler(w) ==
    /\ wpc[w] = "init"
    /\ \E ok \in BOOLEAN :
         /\ running' = [running EXCEPT ![w] = ok]
         /\ init_failed' = [init_failed EXCEPT ![w] = ~ok]
    /\ wpc' = [wpc EXCEPT ![w] = "while"]
    /\ UNCHANGED <<confVars, late_pops, queueVars, statVars, witem, rows, opc,
                   sent, doneCalls>>
    /\ UNCHANGED otherThanCrawler

\* The loop head testing only the call budget, not self.running.
W_while_ignores_running(w) ==
    /\ wpc[w] = "while"
    /\ IF call_count[w] < max_calls
       THEN /\ wpc' = [wpc EXCEPT ![w] = "empty"]
            /\ UNCHANGED running
       ELSE LeaveRun(w, "exited")
    /\ UNCHANGED <<confVars, histVars, queueVars, statVars, witem, rows, opc,
                   sent, doneCalls>>
    /\ UNCHANGED otherThanCrawler

\* while self.running and self.stats.call_count < self.max_calls
W_while(w) ==
    /\ wpc[w] = "while"
    /\ IF running[w] /\ call_count[w] < max_calls
       THEN /\ wpc' = [wpc EXCEPT ![w] = "empty"]
            /\ UNCHANGED running
       ELSE LeaveRun(w, "exited")
    /\ UNCHANGED <<confVars, histVars, queueVars, statVars, witem, rows, opc,
                   sent, doneCalls>>
    /\ UNCHANGED otherThanCrawler

\* if self.queue.empty(): break
W_empty(w) ==
    /\ wpc[w] = "empty"
    /\ IF queue = <<>>
       THEN LeaveRun(w, "exited")
       ELSE /\ wpc' = [wpc EXCEPT ![w] = "get"]
            /\ UNCHANGED running
    /\ UNCHANGED <<confVars, histVars, queueVars, statVars, witem, rows, opc,
                   sent, doneCalls>>
    /\ UNCHANGED otherThanCrawler

\* queue.get where the sentinel is no stop signal: it stays on the queue
\* and the loop goes round again.
W_get_passes_sentinel(w) ==
    /\ wpc[w] = "get"
    /\ queue # <<>>
    /\ IF Head(queue) = None
       THEN /\ wpc' = [wpc EXCEPT ![w] = "while"]
            /\ UNCHANGED <<queue, witem, running>>
       ELSE /\ queue' = Tail(queue)
            /\ wpc' = [wpc EXCEPT ![w] = "crawl"]
            /\ witem' = [witem EXCEPT ![w] = Head(queue)]
            /\ UNCHANGED running
    /\ late_pops' = IF running[w] THEN late_pops
                    ELSE [late_pops EXCEPT ![w] = @ + 1]
    /\ UNCHANGED <<confVars, init_failed, statVars, unfinished, requeued, rows,
                   opc, sent, doneCalls>>
    /\ UNCHANGED otherThanCrawler

\* stock_code = self.queue.get(timeout=5); a sentinel ends the loop.
W_get(w) ==
    /\ wpc[w] = "get"
    /\ queue # <<>>
    /\ queue' = Tail(queue)
    /\ IF Head(queue) = None
       THEN /\ LeaveRun(w, "exited")
            /\ UNCHANGED witem
       ELSE /\ wpc' = [wpc EXCEPT ![w] = "crawl"]
            /\ witem' = [witem EXCEPT ![w] = Head(queue)]
            /\ UNCHANGED running
    /\ late_pops' = IF running[w] THEN late_pops
                    ELSE [late_pops EXCEPT ![w] = @ + 1]
    /\ UNCHANGED <<confVars, init_failed, statVars, unfinished, requeued, rows,
                   opc, sent, doneCalls>>
    /\ UNCHANGED otherThanCrawler

\* queue.get(timeout=5) on a queue another worker emptied after this
\* worker's empty() check: queue.Empty is raised after the timeout.
W_get_timeout(w) ==
    /\ wpc[w] = "get"
    /\ queue = <<>>
    /\ ExceptionInLoop(w)
    /\ UNCHANGED <<confVars, histVars, queueVars, witem, rows, opc, sent,
                   doneCalls>>
    /\ UNCHANGED otherThanCrawler

\* test_mode: db_data = self.get_db_data(db, stock_code), then
\* compare_data(data, db_data): False when no row is stored for the code
\* and the target date, else whether the fetched prices agree with it.
CompareWithStore(w, agree) ==
    /\ wpc' = [wpc EXCEPT ![w] = "task_done"]
    /\ IF rows[witem[w]] > 0 /\ agree
       THEN add_success(w)
       ELSE add_failure(w)

\* The iteration's body with the test_mode branch left out: a valid record
\* always goes on to save_to_database.
W_crawl_always_saves(w) ==
    /\ wpc[w] = "crawl"
    /\ \E outcome \in {"valid", "invalid", "raise"} :
         CASE outcome = "valid" ->
                /\ wpc' = [wpc EXCEPT ![w] = "exists"]
                /\ UNCHANGED <<statVars, queueVars, running, witem>>
           [] outcome = "invalid" ->
                /\ wpc' = [wpc EXCEPT ![w] = "task_done"]
                /\ add_failure(w)
                /\ PutBack(w)
                /\ UNCHANGED <<running, witem>>
           [] outcome = "raise" ->
                /\ ExceptionInLoop(w)
                /\ witem' = [witem EXCEPT ![w] = None]
                /\ UNCHANGED queueVars
    /\ UNCHANGED <<confVars, histVars, rows, opc, sent, doneCalls>>
    /\ UNCHANGED otherThanCrawler

\* data = self.crawl_stock(stock_code); self.validate_data(data).
\* The adapter's answer is an input: a valid record, an invalid or absent
\* one, or one on which validate_data (or, in test_mode, compare_data)
\* raises (a price that is no number).
W_crawl(w) ==
    /\ wpc[w] = "crawl"
    /\ \E outcome \in {"valid", "invalid", "raise"} :
         CASE outcome = "valid" ->
                IF test_mode
                THEN /\ \E agree \in BOOLEAN : CompareWithStore(w, agree)
                     /\ UNCHANGED <<queueVars, running, witem>>
                ELSE /\ wpc' = [wpc EXCEPT ![w] = "exists"]
                     /\ UNCHANGED <<statVars, queueVars, running, witem>>
           [] outcome = "invalid" ->
                /\ wpc' = [wpc EXCEPT ![w] = "task_done"]
                /\ add_failure(w)
                /\ PutBack(w)
                /\ UNCHANGED <<running, witem>>
           [] outcome = "raise" ->
                /\ ExceptionInLoop(w)
                /\ witem' = [witem EXCEPT ![w] = None]
                /\ UNCHANGED queueVars
    /\ UNCHANGED <<confVars, histVars, rows, opc, sent, doneCalls>>
    /\ UNCHANGED otherThanCrawler

\* save_to_database returning False for a row that is already stored.
W_exists_skip_fails(w) ==
    /\ wpc[w] = "exists"
    /\ IF rows[witem[w]] > 0
       THEN /\ wpc' = [wpc EXCEPT ![w] = "task_done"]
            /\ add_failure(w)
       ELSE /\ wpc' = [wpc EXCEPT ![w] = "insert"]
            /\ UNCHANGED statVars
    /\ UNCHANGED <<confVars, histVars, queueVars, witem, running, rows, opc,
                   sent, doneCalls>>
    /\ UNCHANGED otherThanCrawler

\* save_to_database, first half: the exists check (is_data_exists /
\* exists_stock_data); an existing row is skipped and counts as success.
W_exists(w) ==
    /\ wpc[w] = "exists"
    /\ IF rows[witem[w]] > 0
       THEN /\ wpc' = [wpc EXCEPT ![w] = "task_done"]
            /\ add_success(w)
       ELSE /\ wpc' = [wpc EXCEPT ![w] = "insert"]
            /\ UNCHANGED statVars
    /\ UNCHANGED <<confVars, histVars, queueVars, witem, running, rows, opc,
                   sent, doneCalls>>
    /\ UNCHANGED otherThanCrawler

\* The store is unique on (code, date): an INSERT is accepted only while
\* no row with the key is stored.
KeyIsFree(c) == rows[c] = 0

\* save_to_database, second half: insert_stock_data (False when the INSERT
\* raises).
\* history: its result is the result of the save.
\* realtime: after a successful insert db.update_data_status is called;
\*   StockDatabase has no such method, the AttributeError is caught by
\*   save_to_database, which returns False.
W_insert(w) ==
    /\ wpc[w] = "insert"
    /\ \E inserted \in {b \in BOOLEAN : b => KeyIsFree(witem[w])} :
         /\ rows' = IF inserted
                    THEN [rows EXCEPT ![witem[w]] = @ + 1]
                    ELSE rows
         /\ IF inserted /\ kind = "history"
            THEN /\ add_success(w)
                 /\ UNCHANGED queueVars
            ELSE /\ add_failure(w)
                 /\ PutBack(w)
    /\ wpc' = [wpc EXCEPT ![w] = "task_done"]
    /\ UNCHANGED <<confVars, histVars, witem, running, opc, sent, doneCalls>>
    /\ UNCHANGED otherThanCrawler

\* self.queue.task_done(), then the sleep before the next iteration.
W_task_done(w) ==
    /\ wpc[w] = "task_done"
    /\ unfinished' = unfinished - 1
    /\ doneCalls' = doneCalls + 1
    /\ witem' = [witem EXCEPT ![w] = None]
    /\ wpc' = [wpc EXCEPT ![w] = "while"]
    /\ UNCHANGED <<confVars, histVars, statVars, queue, requeued, running, rows,
                   opc, sent>>
    /\ UNCHANGED otherThanCrawler

Worker(w) ==
    \/ W_init_crawler(w)
    \/ W_while(w)
    \/ W_empty(w)
    \/ W_get(w)
    \/ W_get_timeout(w)
    \/ W_crawl(w)
    \/ W_exists(w)
    \/ W_insert(w)
    \/ W_task_done(w)

\* --------------------------------------------------------- orchestrator
\* wait_for_completion polling self.queue.empty() instead of join().
O_join_when_queue_empty ==
    /\ opc = "join"
    /\ queue = <<>>
    /\ opc' = "poison"
    /\ sent' = 0
    /\ UNCHANGED <<confVars, histVars, queueVars, statVars, wpc, witem, running,
                   rows, doneCalls>>
    /\ UNCHANGED otherThanCrawler

\* wait_for_completion: self.queue.join() returns when no task is
\* unfinished.
O_join ==
    /\ opc = "join"
    /\ unfinished = 0
    /\ opc' = "poison"
    /\ sent' = 0
    /\ UNCHANGED <<confVars, histVars, queueVars, statVars, wpc, witem, running,
                   rows, doneCalls>>
    /\ UNCHANGED otherThanCrawler

\* for _ in self.workers: self.queue.put(None)
O_put_sentinel ==
    /\ opc \in {"poison", "poison2"}
    /\ queue' = QPut(queue, None)
    /\ unfinished' = unfinished + 1
    /\ sent' = sent + 1
    /\ opc' = IF sent + 1 < NumWorkers THEN opc
              ELSE IF opc = "poison" THEN "wjoin" ELSE "wjoin2"
    /\ UNCHANGED <<confVars, histVars, statVars, requeued, wpc, witem, running,
                   rows, doneCalls>>
    /\ UNCHANGED otherThanCrawler

\* for worker in self.workers: worker.join(timeout=...): returns when the
\* threads ended or the timeouts passed; the history crawler then calls
\* stop() on the workers still alive.
O_join_workers ==
    /\ opc \in {"wjoin", "wjoin2"}
    /\ opc' = IF opc = "wjoin" THEN "report" ELSE "done"
    /\ running' = IF kind = "history"
                  THEN [w \in Workers |-> running[w] /\ Terminated(w)]
                  ELSE running
    /\ UNCHANGED <<confVars, histVars, queueVars, statVars, wpc, witem, rows,
                   sent, doneCalls>>
    /\ UNCHANGED otherThanCrawler

\* collect_stats / print_summary; the history crawler's start() then runs
\* stop_workers a second time in its finally block.
O_report ==
    /\ opc = "report"
    /\ opc' = IF kind = "history" THEN "poison2" ELSE "done"
    /\ sent' = 0
    /\ UNCHANGED <<confVars, histVars, queueVars, statVars, wpc, witem, running,
                   rows, doneCalls>>
    /\ UNCHANGED otherThanCrawler

Orchestrator ==
    \/ O_join
    \/ O_put_sentinel
    \/ O_join_workers
    \/ O_report

\* -------------------------------------------------------- progress store
\* One entry of progress_data["stocks_status"]; NoRecord: the code is no key.
\* score 0 / error FALSE: the entry has no such key.
NoRecord ==
    [status |-> "absent", score |-> 0, attempts |-> 0, last_attempt |-> 0,
     error |-> FALSE]

\* _get_default_progress
DefaultProgress ==
    [stocks_status |-> [c \in Stocks |-> NoRecord],
     total_stocks |-> 0,
     processed_stocks |-> 0,
     successful_stocks |-> 0,
     failed_stocks |-> 0]

NoOp == [op |-> "none", code |-> 0, score |-> 0, batch_size |-> 0]

\* The file's content: no file, a complete JSON snapshot, or a file that
\* open(..., "w") truncated and json.dump has not (fully) rewritten.
\* A JSON snapshot keeps progress_data's keys; its "stocks_status" object
\* has a key only for the stocks that were marked.
\* json.dump leaving "attempts" out of every entry.
JsonDumpWithoutAttempts(pd) ==
    [pd EXCEPT !.stocks_status =
       [c \in {d \in Stocks : pd.stocks_status[d].status # "absent"} |->
          [pd.stocks_status[c] EXCEPT !.attempts = 0]]]

\* json.dump(self.progress_data, f)
JsonDump(pd) ==
    [pd EXCEPT !.stocks_status =
       [c \in {d \in Stocks : pd.stocks_status[d].status # "absent"} |->
          pd.stocks_status[c]]]

\* json.load(f), read through stocks_status.get(code, {})
JsonLoad(doc) ==
    [doc EXCEPT !.stocks_status =
       [c \in Stocks |-> IF c \in DOMAIN doc.stocks_status
                         THEN doc.stocks_status[c]
                         ELSE NoRecord]]

NoFile == [state |-> "absent", data |-> JsonDump(DefaultProgress)]
TornFile == [state |-> "torn", data |-> JsonDump(DefaultProgress)]
CompleteFile(pd) == [state |-> "complete", data |-> JsonDump(pd)]

\* _load_progress without its try/except: json.load's error propagates.
LoadProgressUnguarded(f) ==
    [raised |-> f.state = "torn",
     data |-> IF f.state = "complete" THEN JsonLoad(f.data)
              ELSE DefaultProgress]

\* _load_progress: the file's snapshot, the default progress when there is
\* no file, and the default progress too when json.load raises.
LoadProgress(f) ==
    [raised |-> FALSE,
     data |-> IF f.state = "complete" THEN JsonLoad(f.data)
              ELSE DefaultProgress]

\* should_process_stock with the retry check written attempts <= max_retries.
ShouldProcessInclusive(pd, c, t) ==
    LET stock_status == pd.stocks_status[c] IN
    IF stock_status.status = "absent"
    THEN TRUE
    ELSE IF /\ stock_status.status = "success"
            /\ t - stock_status.last_attempt < FreshDays
         THEN FALSE
         ELSE stock_status.attempts <= max_retries

\* should_process_stock, on progress data pd at time t.
ShouldProcess(pd, c, t) ==
    LET stock_status == pd.stocks_status[c] IN
    IF stock_status.status = "absent"
    THEN TRUE
    ELSE IF /\ stock_status.status = "success"
            /\ t - stock_status.last_attempt < FreshDays
         THEN FALSE
         \* a success older than that falls through to the retry check
         ELSE stock_status.attempts < max_retries

should_process_stock(c) == ShouldProcess(progress_data, c, now)

\* get_stocks_to_process: scan the universe in code order from stock c on,
\* appending the eligible ones; break once len(acc) >= batch_size.
RECURSIVE ScanStocks(_, _, _, _, _)
ScanStocks(pd, t, c, acc, batch_size) ==
    IF c > NumStocks THEN acc
    ELSE IF ShouldProcess(pd, c, t)
         THEN IF Len(acc) + 1 >= batch_size
              THEN Append(acc, c)
              ELSE ScanStocks(pd, t, c + 1, Append(acc, c), batch_size)
         ELSE ScanStocks(pd, t, c + 1, acc, batch_size)

\* mark_stock_success writing "attempts": 1 instead of raising the counter.
MarkStockSuccessResetsAttempts(pd, c, score, t) ==
    [pd EXCEPT
       !.stocks_status[c] = [@ EXCEPT !.status = "success",
                                      !.score = score,
                                      !.attempts = 1,
                                      !.last_attempt = t],
       !.successful_stocks = @ + 1,
       !.processed_stocks = @ + 1]

\* mark_stock_success: the entry is updated in place (other keys kept).
MarkStockSuccess(pd, c, score, t) ==
    [pd EXCEPT
       !.stocks_status[c] = [@ EXCEPT !.status = "success",
                                      !.score = score,
                                      !.attempts = @ + 1,
                                      !.last_attempt = t],
       !.successful_stocks = @ + 1,
       !.processed_stocks = @ + 1]

\* mark_stock_failed counting every failure in failed_stocks.
MarkStockFailedCountsEach(pd, c, t) ==
    LET current_attempts == pd.stocks_status[c].attempts IN
    [pd EXCEPT
       !.stocks_status[c] = [@ EXCEPT !.status = "failed",
                                      !.error = TRUE,
                                      !.attempts = current_attempts + 1,
                                      !.last_attempt = t],
       !.failed_stocks = @ + 1,
       !.processed_stocks = @ + 1]

\* mark_stock_failed
MarkStockFailed(pd, c, t) ==
    LET current_attempts == pd.stocks_status[c].attempts IN
    [pd EXCEPT
       !.stocks_status[c] = [@ EXCEPT !.status = "failed",
                                      !.error = TRUE,
                                      !.attempts = current_attempts + 1,
                                      !.last_attempt = t],
       !.failed_stocks = IF current_attempts + 1 >= max_retries
                         THEN @ + 1 ELSE @,
       !.processed_stocks = @ + 1]

\* _save_progress begins: open(self.progress_file, "w") truncates the file.
BeginSave == progress_file' = TornFile

\* get_stocks_to_process(batch_size), called by run_full_crawl:
\* get_all_stock_codes records total_stocks and saves, then the scan.
P_get_stocks_to_process ==
    /\ pmPc = "idle"
    /\ batch = <<>>
    /\ \E batch_size \in 0..MaxBatch :
         LET pd == [progress_data EXCEPT !.total_stocks = NumStocks] IN
         /\ progress_data' = pd
         /\ batch' = ScanStocks(pd, now, 1, <<>>, batch_size)
         /\ pmOp' = [op |-> "get_stocks_to_process", code |-> 0,
                     score |-> 0, batch_size |-> batch_size]
    /\ BeginSave
    /\ pmPc' = "writing"
    /\ UNCHANGED <<now, failures>>
    /\ UNCHANGED otherThanProgress

\* run_full_crawl marks the next stock of the batch as a success ...
P_mark_stock_success ==
    /\ pmPc = "idle"
    /\ batch # <<>>
    /\ \E score \in Scores :
         /\ progress_data' = MarkStockSuccess(progress_data, Head(batch),
                                              score, now)
         /\ pmOp' = [op |-> "mark_stock_success", code |-> Head(batch),
                     score |-> score, batch_size |-> 0]
    /\ batch' = Tail(batch)
    /\ BeginSave
    /\ pmPc' = "writing"
    /\ UNCHANGED <<now, failures>>
    /\ UNCHANGED otherThanProgress

\* ... or as a failure.
P_mark_stock_failed ==
    /\ pmPc = "idle"
    /\ batch # <<>>
    /\ progress_data' = MarkStockFailed(progress_data, Head(batch), now)
    /\ pmOp' = [op |-> "mark_stock_failed", code |-> Head(batch),
                score |-> 0, batch_size |-> 0]
    /\ failures' = [failures EXCEPT ![Head(batch)] = @ + 1]
    /\ batch' = Tail(batch)
    /\ BeginSave
    /\ pmPc' = "writing"
    /\ UNCHANGED now
    /\ UNCHANGED otherThanProgress

\* _save_progress ends: json.dump has written the snapshot.
P_save_done ==
    /\ pmPc = "writing"
    /\ progress_file' = CompleteFile(progress_data)
    /\ pmPc' = "idle"
    /\ pmOp' = NoOp
    /\ UNCHANGED <<now, progress_data, batch, failures>>
    /\ UNCHANGED otherThanProgress

\* _save_progress ends in its except clause: the write failed part-way,
\* the error is printed and the caller goes on.
P_save_error ==
    /\ pmPc = "writing"
    /\ pmPc' = "idle"
    /\ pmOp' = NoOp
    /\ UNCHANGED <<now, progress_data, progress_file, batch, failures>>
    /\ UNCHANGED otherThanProgress

\* The process is killed (or ends): its memory is gone, the file stays.
P_kill ==
    /\ pmPc \in {"idle", "writing"}
    /\ pmPc' = "dead"
    /\ progress_data' = DefaultProgress
    /\ pmOp' = NoOp
    /\ batch' = <<>>
    /\ failures' = [c \in Stocks |-> 0]
    /\ UNCHANGED <<now, progress_file>>
    /\ UNCHANGED otherThanProgress

\* MonitorManager.__init__ in a new process.
P_init ==
    /\ pmPc = "dead"
    /\ LET loaded == LoadProgress(progress_file) IN
       IF loaded.raised
       THEN /\ pmPc' = "crashed"
            /\ UNCHANGED progress_data
       ELSE /\ pmPc' = "idle"
            /\ progress_data' = loaded.data
    /\ pmOp' = [op |-> IF progress_file.state = "torn"
                       THEN "init_unreadable_file" ELSE "init",
                code |-> 0, score |-> 0, batch_size |-> 0]
    /\ UNCHANGED <<now, progress_file, batch, failures>>
    /\ UNCHANGED otherThanProgress

\* A day passes.
P_tick ==
    /\ now < MaxNow
    /\ now' = now + 1
    /\ UNCHANGED <<progress_data, progress_file, pmPc, pmOp, batch, failures>>
    /\ UNCHANGED otherThanProgress

InitProgress ==
    /\ now = 0
    /\ progress_file = NoFile
    /\ progress_data = LoadProgress(NoFile).data
    /\ pmPc = "idle"
    /\ pmOp = [op |-> "init", code |-> 0, score |-> 0, batch_size |-> 0]
    /\ batch = <<>>
    /\ failures = [c \in Stocks |-> 0]

NextProgress ==
    \/ P_get_stocks_to_process
    \/ P_mark_stock_success
    \/ P_mark_stock_failed
    \/ P_save_done
    \/ P_save_error
    \/ P_kill
    \/ P_init
    \/ P_tick

\* ------------------------------------------- run_full_crawl, one batch
\* What crawl_stock_info gives run_full_crawl for one stock: the recent
\* score already stored (returned without crawling), the score of a crawl,
\* None, or an exception.
CrawlResults ==
    [kind : {"existing", "crawled"}, score : Scores]
    \cup {[kind |-> "none", score |-> 0], [kind |-> "raise", score |-> 0]}

\* A division raises ZeroDivisionError on a zero divisor.
DivisionRaises(divisor) == divisor = 0

\* get_progress_summary: whether building the summary raises.
get_progress_summary(pd) ==
    [raised |->
       IF pd.total_stocks = 0
       THEN FALSE
       ELSE \/ DivisionRaises(pd.total_stocks)
            \/ pd.processed_stocks > 0 /\ DivisionRaises(pd.processed_stocks)]

\* The loop body with a stock that already has a recent score passed over
\* unmarked.
ProcessStockSkipsExisting(pd, c, result, t) ==
    IF result.kind = "existing"
    THEN pd
    ELSE IF result.kind = "raise"
    THEN MarkStockFailed(pd, c, t)
    ELSE LET marked == IF result.kind = "none"
                       THEN MarkStockFailed(pd, c, t)
                       ELSE MarkStockSuccess(pd, c, result.score, t)
         IN IF get_progress_summary(marked).raised
            THEN MarkStockFailed(marked, c, t)
            ELSE marked

\* The body of run_full_crawl's loop for stock c: a score is marked as a
\* success and None as a failure, then the progress summary is printed;
\* an exception anywhere in the body goes to the except clause, which
\* marks a failure.
ProcessStock(pd, c, result, t) ==
    IF result.kind = "raise"
    THEN MarkStockFailed(pd, c, t)
    ELSE LET marked == IF result.kind = "none"
                       THEN MarkStockFailed(pd, c, t)
                       ELSE MarkStockSuccess(pd, c, result.score, t)
         IN IF get_progress_summary(marked).raised
            THEN MarkStockFailed(marked, c, t)
            ELSE marked

\* stocks_to_process = get_stocks_to_process(batch_size), with
\* _save_progress taken whole.
B_get_stocks_to_process ==
    /\ pmPc = "idle"
    /\ batch = <<>>
    /\ \E batch_size \in 0..MaxBatch :
         LET pd == [progress_data EXCEPT !.total_stocks = NumStocks] IN
         /\ progress_data' = pd
         /\ batch' = ScanStocks(pd, now, 1, <<>>, batch_size)
         /\ pmOp' = [op |-> "get_stocks_to_process", code |-> 0,
                     score |-> 0, batch_size |-> batch_size]
         /\ progress_file' = CompleteFile(pd)
    /\ UNCHANGED <<now, pmPc, failures>>
    /\ UNCHANGED otherThanProgress

\* One iteration of "for stock_code in stocks_to_process"; pmOp keeps what
\* crawl_stock_info gave for the stock.
B_process_stock ==
    /\ pmPc = "idle"
    /\ batch # <<>>
    /\ \E result \in CrawlResults :
         LET c == Head(batch)
             pd == ProcessStock(progress_data, c, result, now)
         IN /\ progress_data' = pd
            /\ pmOp' = [op |-> result.kind, code |-> c,
                        score |-> result.score, batch_size |-> 0]
            /\ failures' =
                 [failures EXCEPT ![c] =
                    @ + pd.stocks_status[c].attempts
                      - progress_data.stocks_status[c].attempts
                      - (IF result.kind \in {"existing", "crawled"}
                         THEN 1 ELSE 0)]
            /\ progress_file' = CompleteFile(pd)
    /\ batch' = Tail(batch)
    /\ UNCHANGED <<now, pmPc>>
    /\ UNCHANGED otherThanProgress

NextBatch ==
    \/ B_get_stocks_to_process
    \/ B_process_stock
    \/ P_tick

\* ------------------------------------ one progress file, several writers
\* MonitorManager objects constructed on the same progress_file path; object
\* m records the outcomes of stock m. _save_progress is taken whole here:
\* open(..., "w") and json.dump with no other writer in between.
Managers == 1..NumManagers

Unborn == [pc |-> "unborn", data |-> DefaultProgress, marks |-> 0]

\* MonitorManager.__init__: self.progress_data = self._load_progress()
S_init(m) ==
    /\ managers[m].pc = "unborn"
    /\ managers' = [managers EXCEPT
                      ![m] = [pc |-> "idle",
                              data |-> LoadProgress(progress_file).data,
                              marks |-> 0]]
    /\ UNCHANGED progress_file
    /\ UNCHANGED otherThanShared

\* The outcome is put into this object's progress_data, which is then
\* dumped over the file.
Record(m, data) ==
    /\ managers' = [managers EXCEPT ![m].data = data,
                                    ![m].marks = @ + 1]
    /\ progress_file' = CompleteFile(data)

\* mark_stock_success(stock_code, score) on object m
S_mark_stock_success(m) ==
    /\ managers[m].pc = "idle"
    /\ managers[m].marks < MaxMarks
    /\ m \in Stocks
    /\ \E score \in Scores :
         Record(m, MarkStockSuccess(managers[m].data, m, score, now))
    /\ UNCHANGED otherThanShared

\* mark_stock_failed(stock_code, error) on object m
S_mark_stock_failed(m) ==
    /\ managers[m].pc = "idle"
    /\ managers[m].marks < MaxMarks
    /\ m \in Stocks
    /\ Record(m, MarkStockFailed(managers[m].data, m, now))
    /\ UNCHANGED otherThanShared

InitShared == managers = [m \in Managers |-> Unborn]

NextShared ==
    \E m \in Managers :
      \/ S_init(m)
      \/ S_mark_stock_success(m)
      \/ S_mark_stock_failed(m)

\* ------------------------------------- record checks and dedup filter
\* Prices are counted in cents (0.01); Missing: the key is absent or
\* its value is None.
Missing == -1
Prices == 0..MaxPrice
Fields == <<"open", "high", "low", "close">>

\* A fetched record or a persisted row; present FALSE: None, no record.
Records ==
    [present : {TRUE}, open : Prices \cup {Missing},
     high : Prices \cup {Missing}, low : Prices \cup {Missing},
     close : Prices \cup {Missing}]

NoData ==
    [present |-> FALSE, open |-> Missing, high |-> Missing, low |-> Missing,
     close |-> Missing]

Abs(x) == IF x < 0 THEN -x ELSE x

\* BaseWorker.validate_data of the real-time worker: only close is looked at.
validate_data_realtime(data) ==
    IF ~data.present THEN FALSE
    ELSE IF data.close = Missing \/ data.close = 0 THEN FALSE
    ELSE IF data.close <= 0 THEN FALSE
    ELSE TRUE

\* BaseWorker.validate_data of the history worker: the four required fields
\* are present and positive.
validate_data_history(data) ==
    /\ data.present
    /\ \A i \in 1..Len(Fields) :
         ~(data[Fields[i]] = Missing \/ data[Fields[i]] <= 0)

\* compare_data with the tolerance test written >=.
compare_data_strict(crawl_data, db_data) ==
    /\ db_data.present
    /\ \A i \in 1..Len(Fields) :
         LET crawl_value == crawl_data[Fields[i]]
             db_value == db_data[Fields[i]]
         IN /\ ~(crawl_value = Missing \/ db_value = Missing)
            /\ ~(Abs(crawl_value - db_value) >= Tolerance)

\* BaseWorker.compare_data: the loop returns False at the first field that
\* is missing on a side or differs by more than the tolerance.
compare_data(crawl_data, db_data) ==
    /\ db_data.present
    /\ \A i \in 1..Len(Fields) :
         LET crawl_value == crawl_data[Fields[i]]
             db_value == db_data[Fields[i]]
         IN /\ ~(crawl_value = Missing \/ db_value = Missing)
            /\ ~(Abs(crawl_value - db_value) > Tolerance)

\* An extracted batch: item i carries a fingerprint and, to tell apart items
\* with equal fingerprints, its position in the batch.
Fingerprints == 1..MaxFp

ItemLists ==
    UNION {[1..n -> Fingerprints] : n \in 0..MaxItems}

Items(fps) == [i \in 1..Len(fps) |-> [fingerprint |-> fps[i], pos |-> i]]

\* _filter_unique_items that never adds to seen_fingerprints.
RECURSIVE FilterUniqueForgetful(_, _, _, _)
FilterUniqueForgetful(items, i, seen_fingerprints, unique_items) ==
    IF i > Len(items) THEN unique_items
    ELSE IF items[i].fingerprint \notin seen_fingerprints
         THEN FilterUniqueForgetful(items, i + 1, seen_fingerprints,
                                    Append(unique_items, items[i]))
         ELSE FilterUniqueForgetful(items, i + 1, seen_fingerprints,
                                    unique_items)

\* _filter_unique_items: the loop from item i on.
RECURSIVE FilterUnique(_, _, _, _)
FilterUnique(items, i, seen_fingerprints, unique_items) ==
    IF i > Len(items) THEN unique_items
    ELSE IF items[i].fingerprint \notin seen_fingerprints
         THEN FilterUnique(items, i + 1,
                           seen_fingerprints \cup {items[i].fingerprint},
                           Append(unique_items, items[i]))
         ELSE FilterUnique(items, i + 1, seen_fingerprints, unique_items)

_filter_unique_items(items) == FilterUnique(items, 1, {}, <<>>)

\* Strings are sequences of characters: a letter, a blank and the bar that
\* generate_content_fingerprint joins with; source names are the fixed
\* names the extractors pass.
Chars == {"a", " ", "|"}
SourceNames == {<<"S">>, <<"T">>}

Strings(n) == UNION {[1..k -> Chars] : k \in 0..n}

Bar == <<"|">>

\* str.strip(): leading and trailing whitespace removed.
RECURSIVE LStrip(_)
LStrip(str) ==
    IF str # <<>> /\ Head(str) = " " THEN LStrip(Tail(str)) ELSE str

RECURSIVE RStrip(_)
RStrip(str) ==
    IF str # <<>> /\ str[Len(str)] = " "
    THEN RStrip(SubSeq(str, 1, Len(str) - 1)) ELSE str

Strip(str) == RStrip(LStrip(str))

\* str[:n]
Slice(str, n) == SubSeq(str, 1, IF Len(str) < n THEN Len(str) ELSE n)

CharCode(c) ==
    CASE c = "a" -> 1 [] c = " " -> 2 [] c = "|" -> 3
      [] c = "S" -> 4 [] c = "T" -> 5

\* safe_md5: hashlib.md5(data.encode("utf-8")).hexdigest(), taken as
\* injective: the digest is the string read as a numeral, one nonzero
\* digit per character.
RECURSIVE safe_md5(_)
safe_md5(data) ==
    IF data = <<>> THEN 0
    ELSE CharCode(Head(data)) + 6 * safe_md5(Tail(data))

\* The three components the fingerprint is built from.
Normalised(in) ==
    <<Strip(in.title), Strip(Slice(in.content, ContentCut)), in.source>>

\* generate_content_fingerprint hashing title and content only.
generate_content_fingerprint_unscoped(title, content, source) ==
    safe_md5(Strip(title) \o Bar \o Strip(Slice(content, ContentCut)))

\* f"{title.strip()}|{content[:500].strip()}|{source}", hashed.
generate_content_fingerprint(title, content, source) ==
    safe_md5(Strip(title) \o Bar \o Strip(Slice(content, ContentCut))
             \o Bar \o source)

FingerprintInputs ==
    [title : Strings(MaxTitle), content : Strings(MaxContent),
     source : SourceNames]

\* A worker object as stop() sees it. adapter: what self.crawler is --
\* "none" (init_crawler failed), an adapter with a close or a
\* close_browser coroutine, one with neither ("plain"), or the Baostock
\* crawler, whose fetcher has logged_in.
WorkerObjects ==
    {[cls |-> "realtime", adapter |-> "none", running |-> FALSE,
      logged_in |-> FALSE]}
    \cup
    [cls : {"realtime"}, adapter : {"close", "close_browser", "plain"},
     running : BOOLEAN, logged_in : {FALSE}]
    \cup
    [cls : {"history"}, adapter : {"plain"}, running : BOOLEAN,
     logged_in : {FALSE}]
    \cup
    [cls : {"history_baostock"}, adapter : {"baostock"}, running : BOOLEAN,
     logged_in : BOOLEAN]

\* Whether this stop() call invokes the adapter's release operation:
\* real-time BaseWorker.stop calls close / close_browser whenever the
\* adapter has one; BaostockWorker.stop calls fetcher.logout(), which calls
\* bs.logout() while logged_in.
Releases(worker) ==
    CASE worker.cls = "realtime" ->
           worker.adapter \in {"close", "close_browser"}
      [] worker.cls = "history" -> FALSE
      [] worker.cls = "history_baostock" -> worker.logged_in

\* stop(): the worker object after the call; raised: the release operation
\* raised (caught and printed by stop / logout).
Stop(worker, raised) ==
    [worker EXCEPT !.running = FALSE,
                   !.logged_in = IF Releases(worker) /\ ~raised
                                 THEN FALSE ELSE @]

NoCall == [fn |-> "none"]
Pending == [done |-> FALSE]

\* The calls made: validate_data on what an adapter fetched, compare_data
\* (test mode) on a record the real-time validate_data accepted and the
\* row read by get_db_data, _filter_unique_items on an extracted batch,
\* stop() on a worker object.
Calls ==
    {[fn |-> "validate_data", worker |-> k, data |-> d] :
       k \in {"realtime", "history"}, d \in Records \cup {NoData}}
    \cup
    {[fn |-> "compare_data", crawl_data |-> d, db_data |-> r] :
       d \in {x \in Records : validate_data_realtime(x)},
       r \in Records \cup {NoData}}
    \cup
    {[fn |-> "_filter_unique_items", items |-> Items(fps)] :
       fps \in ItemLists}
    \cup
    {[fn |-> "stop", worker |-> o, calls |-> 0, released |-> 0,
      first |-> o] : o \in WorkerObjects}

\* A function is called on arguments of its domain.
F_call ==
    /\ call = NoCall
    /\ call' \in Calls
    /\ UNCHANGED ret
    /\ UNCHANGED otherThanCall

F_validate_data_realtime ==
    /\ call.fn = "validate_data"
    /\ call.worker = "realtime"
    /\ ~ret.done
    /\ ret' = [done |-> TRUE, value |-> validate_data_realtime(call.data)]
    /\ UNCHANGED call
    /\ UNCHANGED otherThanCall

F_validate_data_history ==
    /\ call.fn = "validate_data"
    /\ call.worker = "history"
    /\ ~ret.done
    /\ ret' = [done |-> TRUE, value |-> validate_data_history(call.data)]
    /\ UNCHANGED call
    /\ UNCHANGED otherThanCall

F_compare_data ==
    /\ call.fn = "compare_data"
    /\ ~ret.done
    /\ ret' = [done |-> TRUE,
               value |-> compare_data(call.crawl_data, call.db_data)]
    /\ UNCHANGED call
    /\ UNCHANGED otherThanCall

F_filter_unique_items ==
    /\ call.fn = "_filter_unique_items"
    /\ ~ret.done
    /\ ret' = [done |-> TRUE, value |-> _filter_unique_items(call.items)]
    /\ UNCHANGED call
    /\ UNCHANGED otherThanCall

\* One more stop() call on the worker; `first` keeps the object as the
\* first call left it, `released` counts the release operations that ran
\* to their end.
F_stop ==
    /\ call.fn = "stop"
    /\ call.calls < MaxStops
    /\ \E raised \in BOOLEAN :
         LET after == Stop(call.worker, raised)
         IN call' = [call EXCEPT
                       !.worker = after,
                       !.calls = @ + 1,
                       !.released = IF Releases(call.worker) /\ ~raised
                                    THEN @ + 1 ELSE @,
                       !.first = IF call.calls = 0 THEN after ELSE @]
    /\ UNCHANGED ret
    /\ UNCHANGED otherThanCall

\* The extractors fingerprint two items.
F_call_fingerprint ==
    /\ call = NoCall
    /\ \E a \in FingerprintInputs, b \in FingerprintInputs :
         call' = [fn |-> "generate_content_fingerprint",
                  first |-> a, second |-> b]
    /\ UNCHANGED ret
    /\ UNCHANGED otherThanCall

\* Two calls of generate_content_fingerprint, one after the other.
F_generate_content_fingerprint ==
    /\ call.fn = "generate_content_fingerprint"
    /\ ~ret.done
    /\ ret' = [done |-> TRUE,
               value |-> <<generate_content_fingerprint(
                             call.first.title, call.first.content,
                             call.first.source),
                           generate_content_fingerprint(
                             call.second.title, call.second.content,
                             call.second.source)>>]
    /\ UNCHANGED call
    /\ UNCHANGED otherThanCall

InitCall ==
    /\ call = NoCall
    /\ ret = Pending

NextCall ==
    \/ F_call
    \/ F_validate_data_realtime
    \/ F_validate_data_history
    \/ F_compare_data
    \/ F_filter_unique_items
    \/ F_stop

NextFingerprint ==
    \/ F_call_fingerprint
    \/ F_generate_content_fingerprint

\* --------------------------------------------------------- info crawler
\* The content types in the order crawl_stock_info handles them. Comments
\* go through the same statements as announcements, with stock_comments
\* for stock_announcements, and are left out.
ContentTypes == <<"news", "announcement">>
TypeSet == {ContentTypes[k] : k \in 1..Len(ContentTypes)}

\* The table save_stock_info_data is called with for a content type.
SavedTable(t) ==
    CASE t = "news" -> "stock_news"
      [] t = "announcement" -> "stock_announcements"

\* f"stock_{content_type}s", the table _analyze_content_batch looks in.
CheckedTable(t) ==
    CASE t = "news" -> "stock_newss"
      [] t = "announcement" -> "stock_announcements"

TableNames == {SavedTable(t) : t \in TypeSet}

Sentiments == 1..MaxSent

\* What analyze_content returns: a dict with sentiment_score and is_valid,
\* or (wellformed FALSE) the model's JSON without those keys.
Analyses ==
    [wellformed : {TRUE}, sentiment_score : Sentiments, is_valid : BOOLEAN]
    \cup {[wellformed |-> FALSE, sentiment_score |-> 0, is_valid |-> FALSE]}

\* The info tables are unique on fingerprint.
Conflicts(stored, row) == \E r \in stored : r.fingerprint = row.fingerprint

\* INSERT OR REPLACE in place of INSERT OR IGNORE.
InsertOrReplace(stored, row) ==
    {r \in stored : r.fingerprint # row.fingerprint} \cup {row}

\* INSERT OR IGNORE INTO <table> ...
InsertOrIgnore(stored, row) ==
    IF Conflicts(stored, row) THEN stored ELSE stored \cup {row}

\* save_stock_info_data: the loop over data_list from item i on.
RECURSIVE SaveStockInfoData(_, _, _)
SaveStockInfoData(stored, data_list, i) ==
    IF i > Len(data_list) THEN stored
    ELSE SaveStockInfoData(InsertOrIgnore(stored, data_list[i]), data_list,
                           i + 1)

\* An item handed to save_stock_info_data for stock_news: its fingerprint
\* and what it lacks of the required fields -- nothing, a key (the field
\* is not in the item), or a value (the field is there and is None).
SaveItems == [fingerprint : Fingerprints, lacks : {"nothing", "key", "value"}]

SaveLists == UNION {[1..n -> SaveItems] : n \in 0..MaxItems}

\* The loop over data_list from item i on. The check of the required
\* fields prints a warning and continues its own loop over the fields, so
\* every item goes on to the INSERT: item[field] raises KeyError for a key
\* the item lacks; a None is bound as NULL, which INSERT OR IGNORE passes
\* over when the column is NOT NULL and stores otherwise.
RECURSIVE SaveLoop(_, _, _, _)
SaveLoop(stored, data_list, i, not_null) ==
    IF i > Len(data_list) THEN [raised |-> FALSE, rows |-> stored]
    ELSE LET item == data_list[i] IN
         IF item.lacks = "key"
         THEN [raised |-> TRUE, rows |-> stored]
         ELSE IF item.lacks = "value" /\ not_null
         THEN SaveLoop(stored, data_list, i + 1, not_null)
         ELSE SaveLoop(InsertOrIgnore(stored, item), data_list, i + 1,
                       not_null)

\* save_stock_info_data(db_path, "stock_news", data_list) on a table
\* holding `stored`: commit after the loop, rollback when it raised.
save_stock_info_data(stored, data_list, not_null) ==
    LET done == SaveLoop(stored, data_list, 1, not_null)
    IN IF done.raised THEN stored ELSE done.rows

\* A batch is handed to save_stock_info_data; the table is empty or holds
\* the row of fingerprint 1 already.
F_call_save ==
    /\ call = NoCall
    /\ \E data_list \in SaveLists, not_null \in BOOLEAN,
          stored \in {{}, {[fingerprint |-> 1, lacks |-> "nothing"]}} :
         call' = [fn |-> "save_stock_info_data", stored |-> stored,
                  data_list |-> data_list, not_null |-> not_null]
    /\ UNCHANGED ret
    /\ UNCHANGED otherThanCall

\* The call returns; value is the table after it.
F_save_stock_info_data ==
    /\ call.fn = "save_stock_info_data"
    /\ ~ret.done
    /\ ret' = [done |-> TRUE,
               value |-> save_stock_info_data(call.stored, call.data_list,
                                              call.not_null)]
    /\ UNCHANGED call
    /\ UNCHANGED otherThanCall

NextSave ==
    \/ F_call_save
    \/ F_save_stock_info_data

\* ------------------------------------------------ purge of one date
\* A row of merged_stocks, as far as the purge reads it.
MarketRecords == [code : Stocks, date : StoreDates]

\* StockDatabase.clean_date_data inside its transaction: the rows of the
\* date are deleted first, then the data_status rows whose code the
\* sub-select finds in merged_stocks for that date, the sub-select reading
\* the table as the first DELETE left it. When a statement raises, the
\* transaction is rolled back and 0 is returned.
clean_date_data(merged_stocks, data_status, date, raises) ==
    LET remaining == {r \in merged_stocks : r.date # date}
        selected == {r.code : r \in {x \in remaining : x.date = date}}
    IN  IF raises
        THEN [merged_stocks |-> merged_stocks, data_status |-> data_status,
              deleted_count |-> 0]
        ELSE [merged_stocks |-> remaining,
              data_status |-> {c \in data_status : c \notin selected},
              deleted_count |-> Cardinality(merged_stocks \ remaining)]

\* MultiThreadHistoryCrawler.clean_database calls clean_date_data with the
\* target date on a store of any content.
D_call_clean ==
    /\ call = NoCall
    /\ \E merged_stocks \in SUBSET MarketRecords, data_status \in SUBSET Stocks,
          date \in StoreDates, raises \in BOOLEAN :
         call' = [fn |-> "clean_date_data", merged_stocks |-> merged_stocks,
                  data_status |-> data_status, date |-> date,
                  raises |-> raises]
    /\ UNCHANGED ret
    /\ UNCHANGED otherThanCall

\* The call returns; value holds the two tables after it and the count.
D_clean_date_data ==
    /\ call.fn = "clean_date_data"
    /\ ~ret.done
    /\ ret' = [done |-> TRUE,
               value |-> clean_date_data(call.merged_stocks, call.data_status,
                                         call.date, call.raises)]
    /\ UNCHANGED call
    /\ UNCHANGED otherThanCall

NextPurge ==
    \/ D_call_clean
    \/ D_clean_date_data

\* DeduplicationManager.is_content_exists: SELECT id FROM table_name WHERE
\* fingerprint = ?. Nothing writes to stock_newss; without such a table the
\* query raises.
IsContentExists(fp, table_name) ==
    IF table_name \in TableNames
    THEN [raised |-> FALSE,
          exists |-> \E r \in tables[table_name] : r.fingerprint = fp]
    ELSE [raised |-> ~has_newss, exists |-> FALSE]

\* The next item to analyse at or after item i of content type number k.
RECURSIVE Position(_, _, _)
Position(u, k, i) ==
    IF k > Len(ContentTypes) THEN <<k, 1>>
    ELSE IF i > Len(u[ContentTypes[k]]) THEN Position(u, k + 1, 1)
    ELSE <<k, i>>

NoLists == [t \in TypeSet |-> <<>>]
\* analyze_content is invoked for an item of content type t.
Classify(t, fp) ==
    /\ classified' = classified \cup {<<t, fp>>}
    /\ reinvoked' = (reinvoked \/ <<t, fp>> \in classified)

\* crawl_stock_info returns v: its locals are gone.
Return(v) ==
    /\ returned' = v
    /\ ipc' = "idle"
    /\ retry_count' = 0
    /\ unique' = NoLists
    /\ analyzed' = NoLists
    /\ cur' = <<1, 1>>
    /\ classified' = {}
    /\ reinvoked' = FALSE

\* except Exception of crawl_stock_info: another attempt, or None after
\* the last one.
Failed ==
    IF retry_count < crawl_max_retries - 1
    THEN /\ ipc' = "extract"
         /\ retry_count' = retry_count + 1
         /\ unique' = NoLists
         /\ analyzed' = NoLists
         /\ cur' = <<1, 1>>
         /\ UNCHANGED <<classified, reinvoked, returned>>
    ELSE Return("None")

\* crawl_stock_info is called: a recent score already stored for the
\* stock is returned at once, else the attempts begin.
I_crawl_stock_info ==
    /\ ipc = "idle"
    /\ \E existing_score \in BOOLEAN :
         IF existing_score
         THEN returned' = "score" /\ UNCHANGED ipc
         ELSE returned' = "pending" /\ ipc' = "extract"
    /\ UNCHANGED <<tables, has_newss, retry_count, unique, analyzed, cur,
                   classified, reinvoked>>
    /\ UNCHANGED otherThanInfo

\* One attempt: the extractors' lists (empty when an extractor fails),
\* then _filter_unique_items per content type.
I_extract ==
    /\ ipc = "extract"
    /\ \E fetched \in [TypeSet -> ItemLists] :
         LET u == [t \in TypeSet |->
                     LET kept == _filter_unique_items(Items(fetched[t]))
                     IN [i \in 1..Len(kept) |-> kept[i].fingerprint]]
         IN /\ unique' = u
            /\ cur' = Position(u, 1, 1)
            /\ ipc' = IF Position(u, 1, 1)[1] > Len(ContentTypes)
                      THEN "save" ELSE "analyze"
    /\ analyzed' = NoLists
    /\ UNCHANGED <<tables, has_newss, retry_count, classified, reinvoked,
                   returned>>
    /\ UNCHANGED otherThanInfo

\* _analyze_content_batch, one item: skipped when is_content_exists finds
\* it, else analyze_content is called and its sentiment_score and is_valid
\* are read (KeyError when the keys are missing).
I_analyze ==
    /\ ipc = "analyze"
    /\ LET t == ContentTypes[cur[1]]
           fp == unique[t][cur[2]]
           found == IsContentExists(fp, CheckedTable(t))
           next == Position(unique, cur[1], cur[2] + 1)
           advance == /\ cur' = next
                      /\ ipc' = IF next[1] > Len(ContentTypes)
                                THEN "save" ELSE "analyze"
                      /\ UNCHANGED <<retry_count, unique, returned>>
       IN IF found.raised
          THEN Failed
          ELSE IF found.exists
          THEN advance /\ UNCHANGED <<analyzed, classified, reinvoked>>
          ELSE \E analysis \in Analyses :
                 IF analysis.wellformed
                 THEN /\ advance
                      /\ Classify(t, fp)
                      /\ analyzed' =
                           [analyzed EXCEPT ![t] = Append(@,
                              [fingerprint |-> fp,
                               sentiment_score |-> analysis.sentiment_score,
                               is_valid |-> analysis.is_valid])]
                 ELSE /\ retry_count < crawl_max_retries - 1
                      /\ ipc' = "extract"
                      /\ retry_count' = retry_count + 1
                      /\ unique' = NoLists
                      /\ analyzed' = NoLists
                      /\ cur' = <<1, 1>>
                      /\ Classify(t, fp)
                      /\ UNCHANGED returned
    /\ UNCHANGED <<tables, has_newss>>
    /\ UNCHANGED otherThanInfo

\* The last attempt's classifier answer lacks the keys: None is returned.
I_analyze_gives_up ==
    /\ ipc = "analyze"
    /\ retry_count >= crawl_max_retries - 1
    /\ LET t == ContentTypes[cur[1]]
           found == IsContentExists(unique[t][cur[2]], CheckedTable(t))
       IN ~found.raised /\ ~found.exists
    /\ Return("None")
    /\ UNCHANGED <<tables, has_newss>>
    /\ UNCHANGED otherThanInfo

\* save_stock_info_data for every content type with analysed items; a
\* call that fails rolls its table back and returns 0.
I_save ==
    /\ ipc = "save"
    /\ \E saved \in [TypeSet -> BOOLEAN] :
         tables' = [n \in TableNames |->
                      LET t == CHOOSE x \in TypeSet : SavedTable(x) = n
                      IN IF analyzed[t] # <<>> /\ saved[t]
                         THEN SaveStockInfoData(tables[n], analyzed[t], 1)
                         ELSE tables[n]]
    /\ ipc' = "finish"
    /\ UNCHANGED <<has_newss, retry_count, unique, analyzed, cur, classified,
                   reinvoked, returned>>
    /\ UNCHANGED otherThanInfo

\* The scores are averaged and the overall score is stored: when that
\* INSERT raises, its own except clause returns None. Then the crawl
\* status is updated and the overall score returned; any other exception
\* on the way goes to the retry.
I_finish ==
    /\ ipc = "finish"
    /\ \E outcome \in {"stored", "store_raises", "raises"} :
         CASE outcome = "stored" -> Return("score")
           [] outcome = "store_raises" -> Return("None")
           [] outcome = "raises" -> Failed
    /\ UNCHANGED <<tables, has_newss>>
    /\ UNCHANGED otherThanInfo

InitInfo ==
    /\ tables = [n \in TableNames |-> {}]
    /\ has_newss \in BOOLEAN
    /\ ipc = "idle"
    /\ retry_count = 0
    /\ unique = NoLists
    /\ analyzed = NoLists
    /\ cur = <<1, 1>>
    /\ classified = {}
    /\ reinvoked = FALSE
    /\ returned = "pending"

NextInfo ==
    \/ I_crawl_stock_info
    \/ I_extract
    \/ I_analyze
    \/ I_analyze_gives_up
    \/ I_save
    \/ I_finish

\* ------------------------------------------------------- specifications
Init ==
    /\ InitCrawler
    /\ InitProgress
    /\ InitCall
    /\ InitInfo
    /\ InitShared

Next ==
    \/ \E w \in Workers : Worker(w)
    \/ Orchestrator

\* The crawlers.
Spec == Init /\ [][Next]_vars

\* The progress store, beside a real-time crawler that was given no code.
InitNoCrawl ==
    /\ Init
    /\ kind = "realtime"
    /\ ~test_mode
    /\ max_calls = 1
    /\ seeded = 0
    /\ \A c \in Codes : rows[c] = 0

\* The real-time crawler with its threads scheduled fairly: a thread that
\* can take a step takes one, the main thread included.
InitRealtime == Init /\ kind = "realtime" /\ ~has_newss

LiveSpec ==
    /\ InitRealtime
    /\ [][Next]_vars
    /\ \A w \in Workers : WF_vars(Worker(w))
    /\ WF_vars(Orchestrator)

\* Either crawler with its threads scheduled fairly. Each worker is an OS
\* thread whose blocking calls (queue.get(timeout=5), time.sleep) return,
\* so a worker that can take a step takes one; so does the main thread.
InitCrawl == Init /\ ~has_newss

FairSpec ==
    /\ InitCrawl
    /\ [][Next]_vars
    /\ \A w \in Workers : WF_vars(Worker(w))
    /\ WF_vars(Orchestrator)

\* No crawl and a database without a stock_newss table.
InitNoInfo == InitNoCrawl /\ ~has_newss

ProgressSpec == InitNoInfo /\ [][NextProgress]_vars

PurgeSpec == InitNoInfo /\ [][NextPurge]_vars

\* The record checks and the dedup filter, each call on its arguments.
CallSpec == InitNoInfo /\ [][NextCall]_vars

\* run_full_crawl, batch after batch, on one MonitorManager.
BatchSpec == InitNoInfo /\ [][NextBatch]_vars

\* Several MonitorManager objects recording outcomes in one file.
SharedSpec == InitNoInfo /\ [][NextShared]_vars

\* save_stock_info_data, on every batch.
SaveSpec == InitNoInfo /\ [][NextSave]_vars

\* The content fingerprint, on every pair of items.
FingerprintSpec == InitNoInfo /\ [][NextFingerprint]_vars

\* The info crawler, one crawl_stock_info call after the other.
InfoSpec == InitNoCrawl /\ [][NextInfo]_vars

\* ------------------------------------------------------ crawler claims
\* Stock codes whose iteration is under way: popped, task_done not yet made.
InFlightCount == Cardinality({w \in Workers : InFlight(w)})

\* C1 (as stated): drain correctness. queue.join() returns only after
\* exactly N task_done calls, N the number of seeded stock codes: never
\* earlier, and once N calls are made nothing is left for it to wait on.
C1_DrainAfterExactlyN ==
    /\ opc # "join" => doneCalls = seeded
    /\ (opc = "join" /\ doneCalls = seeded) => unfinished = 0

\* C1 (amended): queue.join() returns only after exactly one task_done call
\* per stock code put on the queue, the N seeded codes and every code put
\* back by a history worker, and once that many calls are made nothing is
\* left for it to wait on; without re-enqueues that is exactly N calls.
C1_DrainAfterEveryPut ==
    /\ opc # "join" => doneCalls = seeded + requeued
    /\ (opc = "join" /\ doneCalls = seeded + requeued) => unfinished = 0
    /\ kind = "realtime" => requeued = 0

\* C1 witness: a history run with more seeded codes than workers has ended
\* after a code was put back, so after more than N task_done calls.
C1_Witness ==
    /\ opc = "done"
    /\ kind = "history"
    /\ seeded > NumWorkers
    /\ requeued > 0
    /\ doneCalls > seeded

\* C2: every stock code popped by a worker is followed by exactly one
\* task_done call on every exit path of the iteration, an exception
\* included, so no unfinished task is left that is neither queued nor in
\* flight.
C2_TaskDoneOnEveryExitPath ==
    opc = "join" => unfinished - Len(queue) - InFlightCount = 0

\* C3: an exception raised while a worker handles one stock code (or a
\* pop that times out) never terminates the worker thread.
C3_WorkerSurvivesBadItem == \A w \in Workers : wpc[w] # "died"

\* C4: re-enqueueing is bounded per item: no stock code is put back more
\* than max_retries times, so N codes are put back at most N * max_retries
\* times in all, whatever the workers' call budget.
C4_RequeueBounded ==
    opc = "join" => requeued <= seeded * max_retries

\* ------------------------------------------------ progress store claims
StockStatus(c) == progress_data.stocks_status[c]

\* The record of stock c says failed, with the retry bound reached.
Exhausted(c) ==
    /\ StockStatus(c).status = "failed"
    /\ StockStatus(c).attempts >= max_retries

InBatch(c) == \E i \in 1..Len(batch) : batch[i] = c

\* C5: a stock that has failed max_retries times on this manager has a
\* record that says so; a stock with such a record is not eligible and is
\* in no batch handed out; failed_stocks counts exactly those stocks, each
\* once.
C5_RetryBound ==
    /\ \A c \in Stocks : failures[c] >= max_retries => Exhausted(c)
    /\ \A c \in Stocks :
         Exhausted(c) => ~should_process_stock(c) /\ ~InBatch(c)
    /\ progress_data.failed_stocks =
         Cardinality({c \in Stocks : Exhausted(c)})

\* C5 witness: a batch was just handed out that leaves out a stock which
\* failed max_retries times and holds another stock.
C5_Witness ==
    /\ pmOp.op = "get_stocks_to_process"
    /\ batch # <<>>
    /\ \E c \in Stocks : failures[c] >= max_retries /\ ~InBatch(c)
    /\ progress_data.failed_stocks = 1

\* C6: a success record makes its stock eligible when last_attempt is more
\* than FreshDays old and not eligible when it is less than FreshDays old,
\* whatever its attempts counter.
C6_FreshnessEligibility ==
    \A c \in Stocks :
      StockStatus(c).status = "success" =>
        /\ now - StockStatus(c).last_attempt > FreshDays
             => should_process_stock(c)
        /\ now - StockStatus(c).last_attempt < FreshDays
             => ~should_process_stock(c)

\* C7: a stock with no record is eligible; a stock whose record says failed
\* is eligible if and only if its attempts are below max_retries.
C7_UnattemptedAndFailedEligibility ==
    \A c \in Stocks :
      /\ StockStatus(c).status = "absent" => should_process_stock(c)
      /\ StockStatus(c).status = "failed" =>
           (should_process_stock(c) <=> StockStatus(c).attempts < max_retries)

\* C7 witness: one stock failed to the bound and is not eligible while
\* another failed less often and is eligible.
C7_Witness ==
    \E c, d \in Stocks :
      /\ Exhausted(c) /\ ~should_process_stock(c)
      /\ StockStatus(d).status = "failed"
      /\ StockStatus(d).attempts < max_retries
      /\ should_process_stock(d)

\* A step that is a call of mark_stock_success or mark_stock_failed.
MarkStep ==
    /\ pmPc = "idle"
    /\ pmPc' = "writing"
    /\ pmOp'.op \in {"mark_stock_success", "mark_stock_failed"}

\* C8: a mark call raises the marked stock's attempts by exactly 1 and
\* leaves the other stocks' alone; while the manager lives no step lowers
\* an attempts counter; right after mark_stock_success(code, score) the
\* record says success with the given score.
C8_AttemptsMonotone ==
    [][ /\ MarkStep =>
          /\ progress_data'.stocks_status[pmOp'.code].attempts =
               StockStatus(pmOp'.code).attempts + 1
          /\ \A d \in Stocks \ {pmOp'.code} :
               progress_data'.stocks_status[d] = StockStatus(d)
          /\ pmOp'.op = "mark_stock_success" =>
               /\ progress_data'.stocks_status[pmOp'.code].status = "success"
               /\ progress_data'.stocks_status[pmOp'.code].score = pmOp'.score
        /\ (pmPc # "dead" /\ pmPc' # "dead") =>
             \A c \in Stocks :
               progress_data'.stocks_status[c].attempts >=
                 StockStatus(c).attempts ]_vars

\* C8 witness: mark_stock_success has just been called on a stock whose
\* record still carries the error of an earlier failure.
C8_Witness ==
    /\ pmOp.op = "mark_stock_success"
    /\ StockStatus(pmOp.code).error
    /\ StockStatus(pmOp.code).status = "success"
    /\ StockStatus(pmOp.code).score = pmOp.score
    /\ StockStatus(pmOp.code).attempts >= 2

\* C9: whenever the process has been killed, the progress file is absent
\* or a complete snapshot, never a truncated one.
C9_AtomicSave == pmPc = "dead" => progress_file.state # "torn"

\* C10: a MonitorManager constructed over an unreadable progress file is
\* alive, has no stock record, and finds every stock eligible.
C10_UnreadableFileFallsBack ==
    pmOp.op = "init_unreadable_file" =>
      /\ pmPc = "idle"
      /\ \A c \in Stocks : StockStatus(c) = NoRecord
      /\ \A c \in Stocks : should_process_stock(c)

\* C10 witness: the constructor has just run, on a later day, over a
\* truncated progress file.
C10_Witness ==
    /\ pmOp.op = "init_unreadable_file"
    /\ pmPc = "idle"
    /\ progress_file.state = "torn"
    /\ progress_data = DefaultProgress
    /\ now > 0

Eligible == {c \in Stocks : should_process_stock(c)}

Min(a, b) == IF a <= b THEN a ELSE b

\* A step that is a call of get_stocks_to_process.
GetStep ==
    /\ pmPc = "idle"
    /\ pmPc' = "writing"
    /\ pmOp'.op = "get_stocks_to_process"

\* C12: get_stocks_to_process(n) returns the first min(n, number of
\* eligible stocks) eligible stocks in ascending code order: no more than
\* n elements, each eligible, ascending, none eligible skipped before the
\* last one returned.
C12_FirstNEligible ==
    [][ GetStep =>
          /\ Len(batch') = Min(pmOp'.batch_size, Cardinality(Eligible))
          /\ Len(batch') <= pmOp'.batch_size
          /\ \A i \in 1..Len(batch') : batch'[i] \in Eligible
          /\ \A i, j \in 1..Len(batch') : i < j => batch'[i] < batch'[j]
          /\ \A c \in Eligible :
               (batch' # <<>> /\ c < batch'[Len(batch')]) =>
                 \E i \in 1..Len(batch') : batch'[i] = c ]_vars

PassedCheck(c) == {w \in Workers : wpc[w] = "insert" /\ witem[w] = c}

\* C14: in every interleaving the store holds at most one row per
\* (code, date), and no two workers are past the exists check for the same
\* key at once.
C14_OneEffectiveWrite ==
    \A c \in Codes :
      /\ rows[c] <= 1
      /\ Cardinality(PassedCheck(c)) <= 1

\* ------------------------------------- record check and filter claims
Max3(a, b, c) ==
    IF a >= b /\ a >= c THEN a ELSE IF b >= c THEN b ELSE c

Min3(a, b, c) ==
    IF a <= b /\ a <= c THEN a ELSE IF b <= c THEN b ELSE c

AllPositive(d) ==
    /\ d.present
    /\ \A i \in 1..Len(Fields) : d[Fields[i]] # Missing /\ d[Fields[i]] > 0

\* C15: validate_data returns false for every record whose four prices are
\* present and positive but whose high is below one of the others or whose
\* low is above one of the others.
C15_ValidationOrdering ==
    (/\ call.fn = "validate_data"
     /\ ret.done
     /\ AllPositive(call.data)
     /\ \/ call.data.high <
             Max3(call.data.open, call.data.close, call.data.low)
        \/ call.data.low >
             Min3(call.data.open, call.data.close, call.data.high))
      => ret.value = FALSE

\* C16: in both workers validate_data returns false for an absent record
\* and for every record in which one of open, high, low, close is missing
\* or not positive.
C16_ValidationPositivity ==
    (/\ call.fn = "validate_data"
     /\ ret.done
     /\ ~AllPositive(call.data))
      => ret.value = FALSE

FirstPos(items, fp) ==
    CHOOSE i \in 1..Len(items) :
      /\ items[i].fingerprint = fp
      /\ \A j \in 1..(i - 1) : items[j].fingerprint # fp

\* C18: _filter_unique_items returns the first occurrence of each distinct
\* fingerprint of its input, in input order: each output item is the first
\* input item with its fingerprint, no fingerprint is output twice, every
\* input fingerprint is output, and the input order is kept.
C18_FilterKeepsFirstOccurrences ==
    (call.fn = "_filter_unique_items" /\ ret.done) =>
      LET items == call.items
          out == ret.value
      IN /\ \A i \in 1..Len(out) :
              out[i] = items[FirstPos(items, out[i].fingerprint)]
         /\ \A i, j \in 1..Len(out) :
              i < j => /\ out[i].fingerprint # out[j].fingerprint
                       /\ out[i].pos < out[j].pos
         /\ \A k \in 1..Len(items) :
              \E i \in 1..Len(out) :
                out[i].fingerprint = items[k].fingerprint

\* C18 witness: the batch with fingerprints 1, 1, 2 was filtered to its
\* first and third item.
C18_Witness ==
    /\ call.fn = "_filter_unique_items"
    /\ ret.done
    /\ call.items = Items(<<1, 1, 2>>)
    /\ ret.value = <<[fingerprint |-> 1, pos |-> 1],
                     [fingerprint |-> 2, pos |-> 3]>>

\* -------------------------------------------------- info crawler claims
\* A row with this fingerprint is in the content type's own table.
Stored(t, fp) == \E r \in tables[SavedTable(t)] : r.fingerprint = fp

\* C19 (as stated): during one crawl_stock_info call, all its attempts
\* included, analyze_content is never invoked for a fingerprint already
\* stored in the content type's table, and never twice for the same
\* (fingerprint, content type).
C19_ClassifiedOnlyOnce ==
    [][/\ \A p \in classified' \ classified : ~Stored(p[1], p[2])
       /\ ~reinvoked']_vars

\* C20: the rows of an info table never change or vanish, and no table
\* holds two rows with one fingerprint; a save of an item whose fingerprint
\* is stored leaves the stored row as it is.
C20_WriteOnce ==
    [][\A n \in TableNames :
         /\ \A r \in tables[n] : r \in tables'[n]
         /\ \A r1, r2 \in tables'[n] :
              r1.fingerprint = r2.fingerprint => r1 = r2]_vars

\* C20 witness: the save has run with an analysed item whose fingerprint
\* was stored with another is_valid or sentiment_score, and the stored row
\* is the one in the table.
C20_Witness ==
    /\ ipc = "finish"
    /\ \E t \in TypeSet : \E i \in 1..Len(analyzed[t]) :
         \E r \in tables[SavedTable(t)] :
           /\ r.fingerprint = analyzed[t][i].fingerprint
           /\ r # analyzed[t][i]

\* ------------------------------------------- worker start and shutdown
\* The worker ran init_crawler without an exception.
Initialised(w) == wpc[w] # "init" /\ ~init_failed[w]

\* crawl() has returned after a finished iteration for every code put on
\* the queue.
CrawlReturned == opc = "done" /\ doneCalls = seeded + requeued

\* A worker whose init_crawler failed has running False, has popped
\* nothing and is at the loop head or out of run().
FailedWorkerPopsNothing ==
    \A w \in Workers :
      init_failed[w] =>
        /\ ~running[w]
        /\ witem[w] = None
        /\ wpc[w] \in {"while", "exited"}
        /\ call_count[w] = 0

\* C23: a worker whose adapter fails to initialise sets running False,
\* never pops an item and terminates; provided another worker initialised,
\* every seeded item is still processed and crawl() returns.
C23_InitFailureTolerated ==
    /\ []FailedWorkerPopsNothing
    /\ ((\E w \in Workers : init_failed[w]) /\
        (\E w \in Workers : Initialised(w))) ~> CrawlReturned

\* C24: when every worker fails to initialise and the queue holds an item,
\* the run is aborted and crawl() terminates: the orchestrator does not
\* stay in queue.join() for ever.
C24_NoWaitOnDeadWorkers ==
    ((\A w \in Workers : init_failed[w]) /\ queue # <<>>) ~> (opc = "done")

\* Sentinels put on the queue so far in this run: stop_workers /
\* wait_for_completion put one per worker in each round, and `sent` counts
\* the round under way.
SentinelsPut ==
    CASE opc = "join" -> 0
      [] opc = "poison" -> sent
      [] opc \in {"wjoin", "report"} -> NumWorkers
      [] opc = "poison2" -> NumWorkers + sent
      [] opc = "wjoin2" -> 2 * NumWorkers
      [] opc = "done" -> IF kind = "history" THEN 2 * NumWorkers
                         ELSE NumWorkers

\* While a sentinel is on the queue no stock code is queued or held by a
\* worker, and none is put back.
SentinelsOnlyAfterDrain ==
    (\E i \in 1..Len(queue) : queue[i] = None) =>
        /\ \A i \in 1..Len(queue) : queue[i] = None
        /\ \A w \in Workers : ~InFlight(w)

\* C25: sentinels are put only after queue.join() has returned, exactly one
\* per worker per run, so no worker pops a sentinel while a stock code is
\* queued, in flight or about to be put back.
C25_OneSentinelPerWorkerAfterJoin ==
    /\ SentinelsPut <= NumWorkers
    /\ opc = "done" => SentinelsPut = NumWorkers
    /\ SentinelsOnlyAfterDrain

C28_StatsFinalAfterJoin ==
    [][opc # "join" =>
         /\ success_count' = success_count
         /\ failure_count' = failure_count
         /\ call_count' = call_count]_vars

\* C30: when a real-time worker holds a valid record whose (code, date) was
\* not stored and its save stores the row, the iteration counts one
\* success and no failure.
C30_StoredRowCountsAsSuccess ==
    [][\A w \in Workers :
         (/\ kind = "realtime"
          /\ wpc[w] = "insert"
          /\ wpc'[w] = "task_done"
          /\ rows[witem[w]] = 0
          /\ rows'[witem[w]] = 1) =>
            /\ success_count'[w] = success_count[w] + 1
            /\ failure_count'[w] = failure_count[w]]_vars

\* C22: whatever the classifier call gives, the item gets its is_valid and
\* sentiment_score, no exception leaves _analyze_content_batch and the
\* crawl is neither failed nor retried because of the classifier: a step
\* that invokes analyze_content for an item appends the analysed item and
\* stays in the same attempt.
C22_ClassifierErrorsAbsorbed ==
    [][(classified' # classified /\ classified' # {}) =>
         /\ retry_count' = retry_count
         /\ ipc' \in {"analyze", "save"}
         /\ \E t \in TypeSet :
              /\ Len(analyzed'[t]) = Len(analyzed[t]) + 1
              /\ analyzed'[t][Len(analyzed'[t])].sentiment_score
                   \in Sentiments
              /\ analyzed'[t][Len(analyzed'[t])].is_valid \in BOOLEAN]_vars

\* ------------------------------------------------- fingerprint claims
\* Both fingerprints of a finished pair of calls.
FingerprintsReturned ==
    call.fn = "generate_content_fingerprint" /\ ret.done

HasBar(str) == \E i \in 1..Len(str) : str[i] = "|"

C26_StopIdempotent ==
    call.fn = "stop" =>
        /\ call.calls >= 1 => call.worker = call.first
        /\ call.released <= 1

\* ------------------------------------------------ shared progress file
\* The stock codes that have an entry in the file.
Recorded(f) == DOMAIN f.data.stocks_status

\* C29: when two MonitorManager objects share one progress file and record
\* outcomes for different stocks, no save by one erases a record saved by
\* the other: an entry of the file stays in the file, and stays as it is
\* unless its own stock is recorded again.
C29_NoLostUpdate ==
    [][\A c \in Recorded(progress_file) :
         /\ c \in Recorded(progress_file')
         /\ (\A m \in Managers : m = c => managers'[m] = managers[m]) =>
              progress_file'.data.stocks_status[c]
                = progress_file.data.stocks_status[c]]_vars

\* ------------------------------------------------------ verification mode
\* C31: with test_mode = true no step of the real-time crawler changes the
\* market-record store (so the store after the run is the store before
\* it); a step that handles a fetched record changes only the worker's
\* statistics.
C31_TestModeNeverWrites == [][test_mode => rows' = rows]_vars

\* A test_mode run has returned after a worker compared a fetched record
\* with a stored row and found them in agreement, and another record had
\* no stored row or disagreed.
C31_Witness ==
    /\ test_mode
    /\ opc = "done"
    /\ \E w \in Workers : success_count[w] > 0
    /\ \E w \in Workers : failure_count[w] > 0
    /\ \E c \in Codes : rows[c] > 0

\* ------------------------------------------------------ thread shutdown
\* queue.join() has returned and the orchestrator has put its sentinels,
\* one per worker.
SentinelsAllPut == opc \in {"wjoin", "report", "poison2", "wjoin2", "done"}

\* C32: once queue.join() has returned and the sentinels have been put,
\* every worker thread, wherever it is in its loop, eventually leaves the
\* loop and ends, under fair scheduling.
C32_WorkersTerminateAfterDrain ==
    \A w \in Workers : SentinelsAllPut ~> Terminated(w)

\* The first round of sentinels is on its way and every worker has ended
\* with none of them left on the queue: each worker was still in its loop
\* when they were put, and left it by popping one.
C32_Witness ==
    /\ opc = "report"
    /\ queue = <<>>
    /\ \A w \in Workers : Terminated(w)

\* ----------------------------------------------------------- call budget
\* The worker has left its loop with its call_count at max_calls.
BudgetSpent(w) == wpc[w] = "exited" /\ call_count[w] >= max_calls

\* C33: for every number of seeded codes, of workers and every max_calls,
\* there is no reachable state in which all workers have exited because
\* call_count reached max_calls while the queue's unfinished-task count is
\* still positive (so wait_for_completion returns). Stated here for the
\* tasks that are still on the queue, which are unfinished.
C33_BudgetNeverStrandsTasks ==
    ~ (/\ \A w \in Workers : BudgetSpent(w)
       /\ opc = "join"
       /\ queue # <<>>
       /\ unfinished > 0)
\* ------------------------------------------------------ item ownership
\* How often stock code c is on the queue.
OnQueue(c) == Cardinality({i \in 1..Len(queue) : queue[i] = c})

\* The workers that popped c and have neither stored it nor put it back.
Holders(c) ==
    {w \in Workers : witem[w] = c /\ wpc[w] \in {"crawl", "exists", "insert"}}

\* A row for c and the target date is stored.
Finished(c) == rows[c] > 0

\* C34: in the history crawler, seeded with distinct codes, each code is in
\* exactly one place in every reachable state: once on the queue, held by
\* one worker, or finished; it is never lost, never twice on the queue and
\* never with two workers.
C34_ExclusiveOwnership ==
    kind = "history" =>
      \A c \in 1..seeded :
        OnQueue(c) + Cardinality(Holders(c))
          + (IF Finished(c) THEN 1 ELSE 0) = 1

\* -------------------------------------------------------- run report
\* collect_stats: the sum over the workers of success + failure, which it
\* stores as total_stats["total"].
RECURSIVE TotalUpTo(_)
TotalUpTo(n) ==
    IF n = 0 THEN 0
    ELSE TotalUpTo(n - 1) + success_count[n] + failure_count[n]

collect_stats == TotalUpTo(NumWorkers)

\* C35: in the real-time crawler, when crawl() returns the reported total
\* equals the number N of seeded stock codes, and for every worker
\* call_count = success_count + failure_count at all times.
C35_ReportAccounting ==
    /\ \A w \in Workers :
         call_count[w] = success_count[w] + failure_count[w]
    /\ (kind = "realtime" /\ opc = "done") => collect_stats = seeded

\* crawl() of the real-time crawler has returned after MaxN codes, with
\* outcomes counted by both workers, successes and failures among them.
C35_Witness ==
    /\ kind = "realtime"
    /\ opc = "done"
    /\ seeded = MaxN
    /\ \A w \in Workers : call_count[w] > 0
    /\ \E w \in Workers : success_count[w] > 0
    /\ \E w \in Workers : failure_count[w] > 0

\* ------------------------------------------------- progress counters
\* The stocks whose entry has status "success".
SuccessfulNow == {c \in Stocks : StockStatus(c).status = "success"}

\* C40: in every state reached from an empty progress file by
\* get_stocks_to_process and mark calls, processed_stocks <= total_stocks,
\* successful_stocks is the number of stocks whose status is success, and
\* successful_stocks + failed_stocks <= processed_stocks.
C40_CountersConsistent ==
    (pmPc = "idle" /\ progress_data.total_stocks > 0) =>
      /\ progress_data.processed_stocks <= progress_data.total_stocks
      /\ progress_data.successful_stocks = Cardinality(SuccessfulNow)
      /\ progress_data.successful_stocks + progress_data.failed_stocks
           <= progress_data.processed_stocks

\* ------------------------------------------- one outcome per stock
\* C39: in run_full_crawl every stock of the batch receives exactly one of
\* mark_stock_success and mark_stock_failed: the iteration for a stock
\* raises its attempts counter by exactly one and counts one processed
\* stock, and leaves the other stocks' entries alone; also when
\* crawl_stock_info returns a stored recent score, and when it raises.
C39_OneOutcomePerStock ==
    [][(batch # <<>> /\ batch' = Tail(batch)) =>
         LET c == Head(batch) IN
         /\ progress_data'.stocks_status[c].attempts
              = progress_data.stocks_status[c].attempts + 1
         /\ progress_data'.processed_stocks
              = progress_data.processed_stocks + 1
         /\ \A d \in Stocks \ {c} :
              progress_data'.stocks_status[d]
                = progress_data.stocks_status[d]]_vars

\* The iteration for a stock whose recent score was returned without
\* crawling has just marked it: its first recorded attempt, a success.
C39_Witness ==
    /\ pmOp.op = "existing"
    /\ StockStatus(pmOp.code).status = "success"
    /\ StockStatus(pmOp.code).attempts = 1
    /\ StockStatus(pmOp.code).score = pmOp.score

\* ------------------------------------------- retries of one info crawl
\* C36: one call of crawl_stock_info makes at most 3 attempts, begins a
\* further attempt only when the one before raised, returns the overall
\* score as soon as an attempt completes, and returns None after the third
\* raising attempt (and then only).
C36_BoundedRetry ==
    /\ [](retry_count < crawl_max_retries)
    /\ [][/\ retry_count' > retry_count => retry_count' = retry_count + 1
          /\ (ipc # "idle" /\ returned' = "None") =>
               retry_count = crawl_max_retries - 1]_vars

\* ------------------------------------------------------ bad item in a batch
\* The positions of the items of the saved batch that lack a required field.
BadItems ==
    {i \in 1..Len(call.data_list) : call.data_list[i].lacks # "nothing"}

\* C37: when one item of data_list lacks a required field, that item is
\* skipped and not inserted, and all the other items of the batch are
\* persisted: after the call the table has a row for the fingerprint of
\* each of them.
C37_BadItemSkipped ==
    (call.fn = "save_stock_info_data" /\ ret.done
       /\ Cardinality(BadItems) = 1) =>
      /\ \A i \in BadItems :
           call.data_list[i] \notin ret.value \ call.stored
      /\ \A i \in 1..Len(call.data_list) \ BadItems :
           \E r \in ret.value :
             r.fingerprint = call.data_list[i].fingerprint

\* C38: after clean_date_data(d) has returned without raising, the store
\* holds no market record of date d, the records of every other date are
\* the ones it held before, and no code whose record of date d was removed
\* has a data_status entry any more.
Purged ==
    call.fn = "clean_date_data" /\ ret.done /\ ~call.raises

RemovedCodes ==
    {r.code : r \in {x \in call.merged_stocks : x.date = call.date}}

C38_DatePurge ==
    Purged =>
      /\ \A r \in ret.value.merged_stocks : r.date # call.date
      /\ {r \in ret.value.merged_stocks : r.date # call.date}
           = {r \in call.merged_stocks : r.date # call.date}
      /\ ret.value.data_status \cap RemovedCodes = {}

=============================================================================
